---- MODULE Spec2Model ----
(***************************************************************************)
(* Model of the myotube / nuclei image-analysis pipeline:                  *)
(*   detect_nuclei                       (nuclei_detection.py)             *)
(*   detect_myotubes                     (myotube_detection.py)            *)
(*   analyze_nuclei_myotube_relationship (nuclei_myotube_relationship.py)  *)
(*                                                                         *)
(* A grid (image plane, mask, label map) is a function                     *)
(*   [0..h-1 -> [0..w-1 -> Int]]   indexed grid[row][col] as in numpy.     *)
(* A decoded image is a sequence of three planes in OpenCV's B,G,R order.  *)
(* Floating point results that are quotients of integers (centroids,       *)
(* percentages, the normalised distance map) are kept as exact fractions.  *)
(***************************************************************************)
EXTENDS Integers, Sequences, FiniteSets, TLC

\* ------------------------------------------------------------------------
\* Bounds of the model: the size of the images that are analysed.
\* ------------------------------------------------------------------------
Height == 16
Width == 26

\* ------------------------------------------------------------------------
\* Grids
\* ------------------------------------------------------------------------
NRows(g) == Cardinality(DOMAIN g)
NCols(g) == IF DOMAIN g = {} THEN 0 ELSE Cardinality(DOMAIN g[0])
Pixels(g) == (DOMAIN g) \X (IF DOMAIN g = {} THEN {} ELSE DOMAIN g[0])
ConstGrid(h, w, v) == [r \in 0..(h - 1) |-> [c \in 0..(w - 1) |-> v]]
\* np.zeros_like
ZerosLike(g) == ConstGrid(NRows(g), NCols(g), 0)
\* the set of coordinates (row, col) where the grid is non-zero
Foreground(g) == {p \in Pixels(g) : g[p[1]][p[2]] # 0}

Min2(a, b) == IF a < b THEN a ELSE b
Max2(a, b) == IF a > b THEN a ELSE b
Abs(a) == IF a < 0 THEN 0 - a ELSE a
SetMax(S) == CHOOSE x \in S : \A y \in S : y <= x
SetMin(S) == CHOOSE x \in S : \A y \in S : x <= y

\* the elements of a set of integers in ascending order
SortedSeq(S) == [k \in 1..Cardinality(S) |->
                    CHOOSE x \in S : Cardinality({y \in S : y < x}) = k - 1]

\* f[lo] + ... + f[hi], by halving the range
RECURSIVE SumRange(_, _, _)
SumRange(f, lo, hi) ==
    IF lo > hi THEN 0
    ELSE IF lo = hi THEN f[lo]
    ELSE LET mid == (lo + hi) \div 2
         IN  SumRange(f, lo, mid) + SumRange(f, mid + 1, hi)

\* raster (row-major) order of coordinates, the order numpy and skimage scan in
RasterLess(p, q) == p[1] < q[1] \/ (p[1] = q[1] /\ p[2] < q[2])
RasterFirst(S) == CHOOSE p \in S : \A q \in S : q = p \/ RasterLess(p, q)

\* ------------------------------------------------------------------------
\* cv2.cvtColor(image, cv2.COLOR_BGR2RGB) and channel extraction
\* ------------------------------------------------------------------------
\* the planes in reverse order
cvtColor_BGR2RGB(image) == [k \in 1..3 |-> image[4 - k]]
\* image_rgb[:, :, ch]
Channel(image_rgb, ch) == image_rgb[ch + 1]

\* ------------------------------------------------------------------------
\* cv2.GaussianBlur on 8-bit planes (fixed point, 8 fractional bits per
\* kernel weight): separable kernel, result rounded half up.
\* ------------------------------------------------------------------------
\* ksize 5, sigma 0: the tabulated kernel 1/16, 4/16, 6/16, 4/16, 1/16
Kernel5 == <<16, 64, 96, 64, 16>>
\* ksize 21, sigma 0 -> sigma = 0.3*((21-1)*0.5 - 1) + 0.8 = 3.5
Kernel21 == <<0, 2, 2, 4, 6, 11, 15, 20, 25, 28, 30, 28, 25, 20, 15, 11, 6, 4, 2, 2, 0>>

\* BORDER_REFLECT_101 (cv2.BORDER_DEFAULT): gfedcb|abcdefgh|gfedcba
RECURSIVE Reflect101(_, _)
Reflect101(i, n) == IF n = 1 THEN 0
                    ELSE IF i < 0 THEN Reflect101(0 - i, n)
                    ELSE IF i >= n THEN Reflect101(2 * (n - 1) - i, n)
                    ELSE i
\* BORDER_REPLICATE: aaaaaa|abcdefgh|hhhhhhh
Replicate(i, n) == IF i < 0 THEN 0 ELSE IF i >= n THEN n - 1 ELSE i

BorderIndex(border, i, n) == IF border = "reflect101" THEN Reflect101(i, n) ELSE Replicate(i, n)

\* sum over k of kernel[k] * line[idx[k]]
RECURSIVE Convolve(_, _, _, _)
Convolve(kernel, line, idx, k) ==
    IF k = 0 THEN 0 ELSE kernel[k] * line[idx[k]] + Convolve(kernel, line, idx, k - 1)

GaussianBlur(src, kernel, border) ==
    LET h == NRows(src)
        w == NCols(src)
        n == Len(kernel)
        half == (n - 1) \div 2
        \* the source index of each tap, per column and per row
        cidx == [c \in 0..(w - 1) |-> [k \in 1..n |-> BorderIndex(border, c + k - 1 - half, w)]]
        ridx == [r \in 0..(h - 1) |-> [k \in 1..n |-> BorderIndex(border, r + k - 1 - half, h)]]
        \* horizontal pass, values with 8 fractional bits
        hpass == [c \in 0..(w - 1) |-> [r \in 0..(h - 1) |-> Convolve(kernel, src[r], cidx[c], n)]]
    IN  [r \in 0..(h - 1) |-> [c \in 0..(w - 1) |->
            (Convolve(kernel, hpass[c], ridx[r], n) + 32768) \div 65536]]

\* ------------------------------------------------------------------------
\* Exact comparison of the between-class variances of Otsu's method.  The
\* products exceed 32 bits, so they are kept as little-endian sequences of
\* base-10000 digits.
\* ------------------------------------------------------------------------
BigBase == 10000

RECURSIVE BigFromNat(_)
BigFromNat(n) == IF n = 0 THEN <<>> ELSE <<n % BigBase>> \o BigFromNat(n \div BigBase)

RECURSIVE BigMulSmall(_, _, _)
BigMulSmall(x, k, carry) ==
    IF x = <<>> THEN BigFromNat(carry)
    ELSE LET t == Head(x) * k + carry
         IN  <<t % BigBase>> \o BigMulSmall(Tail(x), k, t \div BigBase)

RECURSIVE BigAdd(_, _, _)
BigAdd(x, y, carry) ==
    IF x = <<>> /\ y = <<>> THEN BigFromNat(carry)
    ELSE LET a == IF x = <<>> THEN 0 ELSE Head(x)
             b == IF y = <<>> THEN 0 ELSE Head(y)
             t == a + b + carry
         IN  <<t % BigBase>> \o BigAdd(IF x = <<>> THEN x ELSE Tail(x),
                                       IF y = <<>> THEN y ELSE Tail(y), t \div BigBase)

\* x * n for a natural n below BigBase * BigBase
BigMul(x, n) == BigAdd(BigMulSmall(x, n % BigBase, 0),
                       <<0>> \o BigMulSmall(x, n \div BigBase, 0), 0)

BigDigit(x, i) == IF i <= Len(x) THEN x[i] ELSE 0
BigLess(x, y) ==
    LET n == Max2(Len(x), Len(y))
    IN  \E i \in 1..n : /\ BigDigit(x, i) < BigDigit(y, i)
                        /\ \A j \in (i + 1)..n : BigDigit(x, j) = BigDigit(y, j)

\* ------------------------------------------------------------------------
\* cv2.threshold(blurred, 0, 255, THRESH_BINARY + THRESH_OTSU)
\* ------------------------------------------------------------------------
\* The threshold the call computes: the first level i (ascending) that
\* maximises q1*q2*(mu1-mu2)^2 for the classes {<= i} and {> i}; levels that
\* leave a class empty are skipped, and 0 is returned when no level qualifies.
\* With n pixels, n1 of them <= i with sum s1, and total sum s:
\*   q1*q2*(mu1-mu2)^2 = (n*s1 - s*n1)^2 / (n^2 * n1 * (n - n1)).
\* The value is constant between two levels that occur in the image, so only
\* those are candidates.
\* the first index in lo..hi (ascending) whose variance is the largest;
\* var[k] = <<num^2, n1*n2>> stands for the fraction num^2 / (n1*n2)
RECURSIVE FirstMax(_, _, _)
FirstMax(var, lo, hi) ==
    IF lo = hi THEN lo
    ELSE LET mid == (lo + hi) \div 2
             a == FirstMax(var, lo, mid)
             b == FirstMax(var, mid + 1, hi)
         IN  IF BigLess(BigMul(var[a][1], var[b][2]), BigMul(var[b][1], var[a][2]))
             THEN b ELSE a

OtsuThreshold(src) ==
    LET px == Pixels(src)
        n == Cardinality(px)
        levels == SortedSeq({src[p[1]][p[2]] : p \in px})
        hist == [k \in 1..Len(levels) |-> Cardinality({p \in px : src[p[1]][p[2]] = levels[k]})]
        wsum == [k \in 1..Len(levels) |-> levels[k] * hist[k]]
        s == SumRange(wsum, 1, Len(levels))
        \* the last level leaves the class {> i} empty and is skipped
        var == [k \in 1..(Len(levels) - 1) |->
                  LET n1 == SumRange(hist, 1, k)
                      s1 == SumRange(wsum, 1, k)
                      num == Abs(n * s1 - s * n1)
                  IN  <<BigMul(BigFromNat(num), num), n1 * (n - n1)>>]
    IN  IF Len(levels) <= 1 THEN 0
        ELSE levels[FirstMax(var, 1, Len(levels) - 1)]

\* THRESH_BINARY: dst = maxval where src > thresh, else 0
\* THRESH_BINARY with "src >= thresh"
ThresholdBinary_inclusive(src, thresh, maxval) ==
    [r \in DOMAIN src |-> [c \in DOMAIN src[r] |-> IF src[r][c] >= thresh THEN maxval ELSE 0]]

ThresholdBinary(src, thresh, maxval) ==
    [r \in DOMAIN src |-> [c \in DOMAIN src[r] |-> IF src[r][c] > thresh THEN maxval ELSE 0]]

\* ------------------------------------------------------------------------
\* cv2.adaptiveThreshold(src, 255, ADAPTIVE_THRESH_GAUSSIAN_C, THRESH_BINARY,
\*                       blockSize, C)
\* ------------------------------------------------------------------------
\* mean = Gaussian-weighted mean of the blockSize x blockSize neighbourhood
\* (BORDER_REPLICATE); dst = maxval where src - mean > -C, else 0.
\* the comparison with C added to the mean, where OpenCV subtracts it
adaptiveThreshold_adding_C(src, maxval, kernel, C) ==
    LET mean == GaussianBlur(src, kernel, "replicate")
    IN  [r \in DOMAIN src |-> [c \in DOMAIN src[r] |->
            IF src[r][c] - mean[r][c] > C THEN maxval ELSE 0]]

adaptiveThreshold(src, maxval, kernel, C) ==
    LET mean == GaussianBlur(src, kernel, "replicate")
    IN  [r \in DOMAIN src |-> [c \in DOMAIN src[r] |->
            IF src[r][c] - mean[r][c] > 0 - C THEN maxval ELSE 0]]

\* ------------------------------------------------------------------------
\* cv2.erode / cv2.dilate / cv2.morphologyEx with a k x k kernel of ones.
\* Pixels outside the image do not take part (the default border value is
\* the neutral element of min / max).
\* ------------------------------------------------------------------------
Window(g, r, c, k) ==
    LET half == (k - 1) \div 2
    IN  {g[rr][cc] : rr \in Max2(0, r - half)..Min2(NRows(g) - 1, r + half),
                     cc \in Max2(0, c - half)..Min2(NCols(g) - 1, c + half)}

erode1(src, k) == [r \in DOMAIN src |-> [c \in DOMAIN src[r] |-> SetMin(Window(src, r, c, k))]]
dilate1(src, k) == [r \in DOMAIN src |-> [c \in DOMAIN src[r] |-> SetMax(Window(src, r, c, k))]]

RECURSIVE erode(_, _, _)
erode(src, k, iterations) ==
    IF iterations = 0 THEN src ELSE erode(erode1(src, k), k, iterations - 1)
RECURSIVE dilate(_, _, _)
dilate(src, k, iterations) ==
    IF iterations = 0 THEN src ELSE dilate(dilate1(src, k), k, iterations - 1)

\* MORPH_OPEN: erode then dilate;  MORPH_CLOSE: dilate then erode
morphologyEx_OPEN(src, k, iterations) == dilate(erode(src, k, iterations), k, iterations)
\* MORPH_CLOSE with its two passes in the order of MORPH_OPEN
morphologyEx_CLOSE_eroding_first(src, k, iterations) ==
    dilate(erode(src, k, iterations), k, iterations)
morphologyEx_CLOSE(src, k, iterations) == erode(dilate(src, k, iterations), k, iterations)

\* ------------------------------------------------------------------------
\* cv2.distanceTransform(src, cv2.DIST_L2, 5)
\* ------------------------------------------------------------------------
\* The 5x5 chamfer distance to the nearest zero pixel, in OpenCV's fixed
\* point units of 1/65536: a horizontal/vertical step costs 1, a diagonal
\* step 1.4 and a knight's move 2.1969.
DistA == 65536
DistB == 91750
DistC == 143976
\* the distance assigned when the image has no zero pixel at all
DistInit == 536870911

Chamfer(dr, dc) ==
    LET hi == Max2(Abs(dr), Abs(dc))
        lo == Min2(Abs(dr), Abs(dc))
    IN  IF hi >= 2 * lo THEN lo * DistC + (hi - 2 * lo) * DistA
        ELSE (hi - lo) * DistC + (2 * lo - hi) * DistB

distanceTransform(src) ==
    LET zeros == {p \in Pixels(src) : src[p[1]][p[2]] = 0}
    IN  [r \in DOMAIN src |-> [c \in DOMAIN src[r] |->
            IF src[r][c] = 0 THEN 0
            ELSE IF zeros = {} THEN DistInit
            ELSE SetMin({Chamfer(r - q[1], c - q[2]) : q \in zeros})]]

\* ------------------------------------------------------------------------
\* cv2.normalize(d, d, 0, 1.0, cv2.NORM_MINMAX)
\* ------------------------------------------------------------------------
\* dst = (src - min) * scale with scale = 1 / (max - min), or 0 when the
\* range is empty.  The result is the fraction num[r][c] / den (den = 1 and
\* every numerator 0 when the scale is 0).
normalize_MINMAX(src) ==
    LET vals == {src[p[1]][p[2]] : p \in Pixels(src)}
        lo == SetMin(vals)
        hi == SetMax(vals)
    IN  IF hi - lo > 0
        THEN [num |-> [r \in DOMAIN src |-> [c \in DOMAIN src[r] |-> src[r][c] - lo]],
              den |-> hi - lo]
        ELSE [num |-> ZerosLike(src), den |-> 1]

\* ------------------------------------------------------------------------
\* skimage.measure.label (default connectivity: 8 neighbours in 2-D) and
\* skimage.measure.regionprops
\* ------------------------------------------------------------------------
Neighbours8(p) == {<<p[1] + dr, p[2] + dc>> : dr \in {-1, 0, 1}, dc \in {-1, 0, 1}} \ {p}

\* the pixels of S reachable from the frontier through neighbouring pixels of S
RECURSIVE Flood(_, _, _)
Flood(S, frontier, seen) ==
    LET new == (UNION {Neighbours8(p) : p \in frontier} \cap S) \ seen
    IN  IF new = {} THEN seen ELSE Flood(S, new, seen \cup new)

\* the connected components of the non-zero pixels of equal value, in the
\* order of their first pixel in raster order
RECURSIVE ComponentsOf(_, _)
ComponentsOf(g, S) ==
    IF S = {} THEN <<>>
    ELSE LET p == RasterFirst(S)
             same == {q \in S : g[q[1]][q[2]] = g[p[1]][p[2]]}
             comp == Flood(same, {p}, {p})
         IN  <<comp>> \o ComponentsOf(g, S \ comp)

\* a labelling that numbers the components 2, 4, 6, ... in raster order
LabelOfComponents_sparse(g, comps) ==
    [r \in DOMAIN g |-> [c \in DOMAIN g[r] |->
        IF g[r][c] = 0 THEN 0
        ELSE 2 * (CHOOSE k \in 1..Len(comps) : <<r, c>> \in comps[k])]]

LabelOfComponents(g, comps) ==
    [r \in DOMAIN g |-> [c \in DOMAIN g[r] |->
        IF g[r][c] = 0 THEN 0
        ELSE CHOOSE k \in 1..Len(comps) : <<r, c>> \in comps[k]]]

\* measure.label(g): background 0, components numbered 1, 2, ... in raster order
label(g) == LabelOfComponents(g, ComponentsOf(g, Foreground(g)))

\* regionprops(label_image): one region per label that occurs, ascending;
\* region.coords is kept as the set of its pixels, region.area is their number
regionprops(label_image) ==
    LET present == SortedSeq({label_image[p[1]][p[2]] : p \in Foreground(label_image)})
    IN  [k \in 1..Len(present) |->
            LET px == {p \in Pixels(label_image) : label_image[p[1]][p[2]] = present[k]}
            IN  [label |-> present[k], area |-> Cardinality(px), coords |-> px]]

\* region.centroid: the mean of the region's coordinates, as the exact
\* fractions <<sum of rows, sum of columns, number of pixels>>
centroid(region) ==
    LET rows == SortedSeq({p[1] : p \in region.coords})
        cols == SortedSeq({p[2] : p \in region.coords})
    IN  <<SumRange([k \in 1..Len(rows) |->
                       rows[k] * Cardinality({p \in region.coords : p[1] = rows[k]})], 1, Len(rows)),
          SumRange([k \in 1..Len(cols) |->
                       cols[k] * Cardinality({p \in region.coords : p[2] = cols[k]})], 1, Len(cols)),
          region.area>>

\* ------------------------------------------------------------------------
\* skimage.feature.peak_local_max(image, min_distance, labels=labels)
\* (exclude_border=True, threshold_abs = image.min())
\* ------------------------------------------------------------------------
ChebyshevDist(p, q) == Max2(Abs(p[1] - q[1]), Abs(p[2] - q[2]))

\* scipy.ndimage.binary_opening of a pixel set inside a bounding box, with
\* the default cross-shaped structure and border value 0
Cross(p) == {p, <<p[1] - 1, p[2]>>, <<p[1] + 1, p[2]>>, <<p[1], p[2] - 1>>, <<p[1], p[2] + 1>>}
binary_opening(S, box) ==
    LET er == {p \in S : Cross(p) \subseteq S}
    IN  {p \in box : Cross(p) \cap er # {}}

\* keep the candidates greedily in the given order, dropping every candidate
\* closer than spacing (Chebyshev) to one already kept
RECURSIVE ensure_spacing(_, _, _)
ensure_spacing(coords, spacing, kept) ==
    IF coords = <<>> THEN kept
    ELSE LET p == Head(coords)
         IN  IF \E i \in 1..Len(kept) : ChebyshevDist(kept[i], p) < spacing
             THEN ensure_spacing(Tail(coords), spacing, kept)
             ELSE ensure_spacing(Tail(coords), spacing, Append(kept, p))

\* the coordinates of S sorted by decreasing intensity, raster order among
\* equal intensities (stable argsort of the raster-ordered candidates)
PeakBefore(image, q, t) ==
    \/ image[q[1]][q[2]] > image[t[1]][t[2]]
    \/ (image[q[1]][q[2]] = image[t[1]][t[2]] /\ RasterLess(q, t))
SortPeaks(image, S) ==
    [k \in 1..Cardinality(S) |->
        CHOOSE p \in S : Cardinality({q \in S : PeakBefore(image, q, p)}) = k - 1]

\* the peaks found inside the region of one label value
PeaksOfLabel(image, min_distance, labels, lab, threshold) ==
    LET h == NRows(image)
        w == NCols(image)
        \* labels with a border of min_distance pixels cleared
        inner == {p \in Pixels(labels) : /\ labels[p[1]][p[2]] = lab
                                         /\ p[1] >= min_distance /\ p[1] < h - min_distance
                                         /\ p[2] >= min_distance /\ p[2] < w - min_distance}
        r0 == SetMin({p[1] : p \in inner})
        r1 == SetMax({p[1] : p \in inner})
        c0 == SetMin({p[2] : p \in inner})
        c1 == SetMax({p[2] : p \in inner})
        \* the bounding box of what is left, and the label's pixels inside it
        box == (r0..r1) \X (c0..c1)
        label_mask == {p \in box : labels[p[1]][p[2]] = lab}
        \* maximum filter with a (2*min_distance+1)^2 footprint; pixels that do
        \* not carry the label are below every intensity
        IsMax(p) == \A q \in label_mask :
                        ChebyshevDist(p, q) <= min_distance
                            => image[q[1]][q[2]] <= image[p[1]][p[2]]
        maxima == {p \in label_mask : IsMax(p)}
        \* an object whose pixels all are maxima has no peak, except its
        \* isolated pixels
        out == IF maxima = label_mask
               THEN label_mask \ binary_opening(label_mask, box)
               ELSE maxima
        peaks == {p \in out : image[p[1]][p[2]] > threshold}
    IN  IF inner = {} THEN <<>>
        ELSE ensure_spacing(SortPeaks(image, peaks), min_distance, <<>>)

peak_local_max(image, min_distance, labels) ==
    LET threshold == SetMin({image[p[1]][p[2]] : p \in Pixels(image)})
        labs == SortedSeq({labels[p[1]][p[2]] : p \in Foreground(labels)})
        RECURSIVE PerLabel(_)
        PerLabel(k) == IF k > Len(labs) THEN <<>>
                       ELSE PeaksOfLabel(image, min_distance, labels, labs[k], threshold)
                            \o PerLabel(k + 1)
    IN  PerLabel(1)

\* ------------------------------------------------------------------------
\* skimage.segmentation.watershed(image, markers, mask=mask)
\* (connectivity 1: the 4 neighbours; no compactness, no watershed line)
\* ------------------------------------------------------------------------
\* Priority flood.  A queue entry is <<value, age, pixel>>; the entry with the
\* smallest value is taken first, the oldest first among equal values.  All
\* markers enter with age 0; among markers of equal value the model takes the
\* first in raster order (the library takes them in the order of its binary
\* heap, which is fixed for a given input as well).
QueueLess(a, b) == \/ a[1] < b[1]
                   \/ a[1] = b[1] /\ a[2] < b[2]
                   \/ a[1] = b[1] /\ a[2] = b[2] /\ RasterLess(a[3], b[3])

\* the 4 neighbours in the order the library visits them
Neighbours4(p) == << <<p[1] - 1, p[2]>>, <<p[1], p[2] - 1>>, <<p[1], p[2] + 1>>, <<p[1] + 1, p[2]>> >>

RECURSIVE VisitNeighbours(_, _, _, _, _, _)
VisitNeighbours(image, mask, src, nbrs, i, st) ==
    IF i > Len(nbrs) THEN st
    ELSE LET q == nbrs[i]
         IN  IF \/ q \notin Pixels(image)
                \/ mask[q[1]][q[2]] = 0
                \/ st.output[q[1]][q[2]] # 0
             THEN VisitNeighbours(image, mask, src, nbrs, i + 1, st)
             ELSE VisitNeighbours(image, mask, src, nbrs, i + 1,
                    [output |-> [st.output EXCEPT ![q[1]][q[2]] = st.output[src[1]][src[2]]],
                     queue |-> st.queue \cup {<<image[q[1]][q[2]], st.age + 1, q>>},
                     age |-> st.age + 1])

\* the state before the first entry is taken: the markers inside the mask
\* are the labelled pixels and are all queued
WatershedInit(image, markers, mask) ==
    LET seeds == [r \in DOMAIN markers |-> [c \in DOMAIN markers[r] |->
                    IF mask[r][c] # 0 THEN markers[r][c] ELSE 0]]
    IN  [output |-> seeds,
         queue |-> {<<image[p[1]][p[2]], 0, p>> : p \in Foreground(seeds)},
         age |-> 0]

\* one iteration of "while the queue is not empty": take the first entry and
\* give its label to its unlabelled neighbours inside the mask
WatershedPop(image, mask, st) ==
    LET e == CHOOSE a \in st.queue : \A b \in st.queue : b = a \/ QueueLess(a, b)
    IN  VisitNeighbours(image, mask, e[3], Neighbours4(e[3]), 1,
                        [st EXCEPT !.queue = st.queue \ {e}])

\* -dist_transform
Negate(g) == [r \in DOMAIN g |-> [c \in DOMAIN g[r] |-> 0 - g[r][c]]]
\* np.max(labels)
\* len(np.unique(labels)) for np.max(labels): the background label is counted
np_max_unique(g) == Cardinality({g[p[1]][p[2]] : p \in Pixels(g)})

np_max(g) == SetMax({g[p[1]][p[2]] : p \in Pixels(g)})
\* np.unique(labels), ascending, as a sequence
np_unique(g) == SortedSeq({g[p[1]][p[2]] : p \in Pixels(g)})

\* ------------------------------------------------------------------------
\* detect_myotubes: the area filter over the labelled regions
\* ------------------------------------------------------------------------
min_area == 100

\* the loop over region.coords starting at the second coordinate
PaintRegion_skip_first(filtered_binary, region) ==
    [r \in DOMAIN filtered_binary |-> [c \in DOMAIN filtered_binary[r] |->
        IF <<r, c>> \in region.coords \ {RasterFirst(region.coords)}
        THEN 255 ELSE filtered_binary[r][c]]]

\* filtered_binary[coord[0], coord[1]] = 255 for every coord of the region
PaintRegion(filtered_binary, region) ==
    [r \in DOMAIN filtered_binary |-> [c \in DOMAIN filtered_binary[r] |->
        IF <<r, c>> \in region.coords THEN 255 ELSE filtered_binary[r][c]]]

\* the loop body with "region.area > min_area"
FilterRegion_strict(st, region) ==
    IF region.area > min_area
    THEN [myotube_count |-> st.myotube_count + 1,
          total_myotube_area |-> st.total_myotube_area + region.area,
          filtered_binary |-> PaintRegion(st.filtered_binary, region)]
    ELSE st

\* the body of "for region in regions", applied to the loop state
FilterRegion(st, region) ==
    IF region.area >= min_area
    THEN [myotube_count |-> st.myotube_count + 1,
          total_myotube_area |-> st.total_myotube_area + region.area,
          filtered_binary |-> PaintRegion(st.filtered_binary, region)]
    ELSE st

RECURSIVE FilterLoop(_, _, _)
FilterLoop(regions, i, st) ==
    IF i > Len(regions) THEN st
    ELSE FilterLoop(regions, i + 1, FilterRegion(st, regions[i]))

\* lines 69-84: label the cleaned mask, keep the regions of sufficient area
AreaFilter(closed) ==
    FilterLoop(regionprops(label(closed)), 1,
               [myotube_count |-> 0, total_myotube_area |-> 0,
                filtered_binary |-> ZerosLike(closed)])

\* ------------------------------------------------------------------------
\* Fractions <<numerator, denominator>> for the float results
\* ------------------------------------------------------------------------
FracEq(a, b) == a[1] * b[2] = b[1] * a[2]
FracLeq(a, b) == a[1] * b[2] <= b[1] * a[2]
\* int(x) of a float: truncation towards zero
int(num, den) == IF num >= 0 THEN num \div den ELSE 0 - ((0 - num) \div den)

\* ------------------------------------------------------------------------
\* The input: the content of the image file at image_path
\* ------------------------------------------------------------------------
\* cv2.imread returns None when the file cannot be read
None == <<>>

\* an image plane that is 255 inside the blocks <<top, left, height, width>>
\* and 0 elsewhere
Paint(h, w, blocks) ==
    [r \in 0..(h - 1) |-> [c \in 0..(w - 1) |->
        IF \E b \in blocks : /\ r >= b[1] /\ r < b[1] + b[3]
                             /\ c >= b[2] /\ c < b[2] + b[4]
        THEN 255 ELSE 0]]

\* the myotube signal (red channel) of the images analysed
RedChoices ==
    { {},
      {<<0, 0, 10, 10>>, <<11, 21, 5, 5>>},
      {<<0, 0, 9, 11>>},
      {<<3, 3, 10, 10>>},
      {<<4, 4, 8, 18>>},
      {<<6, 6, 3, 3>>, <<0, 19, Height, 7>>} }

\* the nuclei signal (blue channel) of the images analysed
BlueChoices ==
    { {},
      {<<6, 6, 3, 3>>, <<6, 16, 3, 3>>},
      {<<6, 8, 3, 3>>, <<7, 9, 3, 4>>},
      {<<1, 1, 3, 3>>},
      {<<7, 8, 1, 1>>},
      {<<5, 5, 5, 5>>, <<5, 10, 5, 5>>} }

\* the decoded files, planes in B, G, R order
Images ==
    { <<Paint(Height, Width, b), ConstGrid(Height, Width, 0), Paint(Height, Width, r)>> :
        b \in BlueChoices, r \in RedChoices }

\* The file at image_path is decoded three times: line 39 of
\* analyze_nuclei_myotube_relationship, line 35 of detect_nuclei and line 35 of
\* detect_myotubes.  When the file is rewritten between the last two reads the
\* nuclei label map and the myotube mask have different shapes.  These are the
\* smaller images the file may be rewritten to.
SmallShapes == { <<Height \div 2 - 2, Width>>, <<Height, Width \div 2>> }
SmallImages ==
    { <<ConstGrid(sh[1], sh[2], 0), ConstGrid(sh[1], sh[2], 0), Paint(sh[1], sh[2], r)>> :
        sh \in SmallShapes, r \in { {}, {<<0, 0, 10, 10>>} } }

\* the images with no myotube signal
ImagesNoRed ==
    { <<Paint(Height, Width, b), ConstGrid(Height, Width, 0), ConstGrid(Height, Width, 0)>> :
        b \in BlueChoices }

\* ------------------------------------------------------------------------
\* State
\* ------------------------------------------------------------------------
VARIABLES
    file,   \* what cv2.imread(image_path) returns: an element of Images, or None
    pc,     \* the statement the analysis is at
    nuc,    \* the local variables of detect_nuclei
    myo,    \* the local variables of detect_myotubes
    rel,    \* the local variables of analyze_nuclei_myotube_relationship
    other,  \* the call of the analysis that is suspended while this one runs:
            \* its file, pc, nuc, myo and rel; Unset when there is none
    dir_exists  \* os.path.exists(output_dir)

vars == <<file, pc, nuc, myo, rel, other, dir_exists>>

\* a local variable that has not been assigned yet
Unset == <<>>

\* The states of Init are those of one call of the analysis that has passed
\* lines 30-35, where output_dir is created when it does not exist: the
\* directory exists from then on (nothing removes it), and lines 27-31 of
\* detect_nuclei and of detect_myotubes find it.

NucInit == [image_rgb |-> Unset, blue_channel |-> Unset, blurred |-> Unset,
            threshold_value |-> Unset, binary |-> Unset, eroded |-> Unset,
            dilated |-> Unset, dist_transform |-> Unset, coordinates |-> Unset,
            local_max |-> Unset, markers |-> Unset, flood |-> Unset,
            labels |-> Unset, nuclei_count |-> Unset, results |-> Unset]

MyoInit == [image_rgb |-> Unset, red_channel |-> Unset, blurred |-> Unset,
            binary |-> Unset, opened |-> Unset, closed |-> Unset,
            labeled_image |-> Unset, regions |-> Unset, filtered_binary |-> Unset,
            myotube_count |-> Unset, total_myotube_area |-> Unset,
            image_area |-> Unset, myotube_area_percentage |-> Unset,
            visualize |-> FALSE, labeled_myotubes |-> Unset,
            results |-> Unset]

RelInit == [image_rgb |-> Unset, nuclei_results |-> Unset, myotube_results |-> Unset,
            nuclei_labels |-> Unset, myotube_mask |-> Unset, labeled_myotubes |-> Unset,
            unique_nuclei |-> Unset, next |-> Unset,
            nuclei_within_myotubes |-> Unset, nuclei_outside_myotubes |-> Unset,
            nuclei_centroids |-> Unset, nuclei_in_myotube |-> Unset,
            mask_reads |-> Unset,
            total_nuclei |-> Unset, percentage_within_myotubes |-> Unset,
            results |-> Unset]

Init ==
    /\ file \in Images \cup {None}
    /\ pc = "a_load"
    /\ nuc = NucInit
    /\ myo = MyoInit
    /\ rel = RelInit
    /\ other = Unset
    /\ dir_exists = TRUE

\* ------------------------------------------------------------------------
\* analyze_nuclei_myotube_relationship, lines 37-44: load the image
\* ------------------------------------------------------------------------
\* lines 39-44 without the test "if image is None" of lines 40-41
A_Load_unchecked ==
    /\ pc = "a_load"
    /\ pc' = "n_load"
    /\ rel' = [rel EXCEPT !.image_rgb = IF file = None THEN None ELSE cvtColor_BGR2RGB(file)]
    /\ UNCHANGED <<file, nuc, myo, other, dir_exists>>

A_Load ==
    /\ pc = "a_load"
    /\ IF file = None
       THEN \* raise ValueError
            /\ pc' = "raised"
            /\ UNCHANGED rel
       ELSE /\ rel' = [rel EXCEPT !.image_rgb = cvtColor_BGR2RGB(file)]
            /\ pc' = "n_load"
    /\ UNCHANGED <<file, nuc, myo, other, dir_exists>>

\* ------------------------------------------------------------------------
\* detect_nuclei(image_path, output_dir, visualize=False)
\* ------------------------------------------------------------------------
min_distance == 7

\* lines 33-43
N_Load ==
    /\ pc = "n_load"
    /\ IF file = None
       THEN /\ pc' = "raised"
            /\ UNCHANGED nuc
       ELSE /\ nuc' = [nuc EXCEPT !.image_rgb = cvtColor_BGR2RGB(file),
                                  !.blue_channel = Channel(cvtColor_BGR2RGB(file), 2)]
            /\ pc' = "n_blur"
    /\ UNCHANGED <<file, myo, rel, other, dir_exists>>

\* line 46
N_Blur ==
    /\ pc = "n_blur"
    /\ nuc' = [nuc EXCEPT !.blurred = GaussianBlur(nuc.blue_channel, Kernel5, "reflect101")]
    /\ pc' = "n_threshold"
    /\ UNCHANGED <<file, myo, rel, other, dir_exists>>

\* line 49
N_Threshold ==
    /\ pc = "n_threshold"
    /\ LET t == OtsuThreshold(nuc.blurred)
       IN  nuc' = [nuc EXCEPT !.threshold_value = t,
                              !.binary = ThresholdBinary(nuc.blurred, t, 255)]
    /\ pc' = "n_erode"
    /\ UNCHANGED <<file, myo, rel, other, dir_exists>>

\* lines 54-55
N_Erode ==
    /\ pc = "n_erode"
    /\ nuc' = [nuc EXCEPT !.eroded = erode(nuc.binary, 3, 1)]
    /\ pc' = "n_dilate"
    /\ UNCHANGED <<file, myo, rel, other, dir_exists>>

\* line 58
N_Dilate ==
    /\ pc = "n_dilate"
    /\ nuc' = [nuc EXCEPT !.dilated = dilate(nuc.eroded, 3, 1)]
    /\ pc' = "n_distance"
    /\ UNCHANGED <<file, myo, rel, other, dir_exists>>

\* line 61
N_Distance ==
    /\ pc = "n_distance"
    /\ nuc' = [nuc EXCEPT !.dist_transform = [num |-> distanceTransform(nuc.dilated), den |-> DistA]]
    /\ pc' = "n_normalize"
    /\ UNCHANGED <<file, myo, rel, other, dir_exists>>

\* line 64
N_Normalize ==
    /\ pc = "n_normalize"
    /\ nuc' = [nuc EXCEPT !.dist_transform = normalize_MINMAX(nuc.dist_transform.num)]
    /\ pc' = "n_peaks"
    /\ UNCHANGED <<file, myo, rel, other, dir_exists>>

\* line 67
N_Peaks ==
    /\ pc = "n_peaks"
    /\ nuc' = [nuc EXCEPT !.coordinates =
                  peak_local_max(nuc.dist_transform.num, min_distance, nuc.dilated)]
    /\ pc' = "n_local_max"
    /\ UNCHANGED <<file, myo, rel, other, dir_exists>>

\* lines 70-74: a boolean mask, True at the coordinates
N_LocalMax ==
    /\ pc = "n_local_max"
    /\ nuc' = [nuc EXCEPT !.local_max =
                  [r \in DOMAIN nuc.dilated |-> [c \in DOMAIN nuc.dilated[r] |->
                      IF \E i \in 1..Len(nuc.coordinates) : nuc.coordinates[i] = <<r, c>>
                      THEN 1 ELSE 0]]]
    /\ pc' = "n_markers"
    /\ UNCHANGED <<file, myo, rel, other, dir_exists>>

\* line 77
N_Markers ==
    /\ pc = "n_markers"
    /\ nuc' = [nuc EXCEPT !.markers = label(nuc.local_max)]
    /\ pc' = "n_watershed"
    /\ UNCHANGED <<file, myo, rel, other, dir_exists>>

\* line 80: the call of segmentation.watershed, up to its flooding loop
N_Watershed ==
    /\ pc = "n_watershed"
    /\ nuc' = [nuc EXCEPT !.flood =
                  WatershedInit(Negate(nuc.dist_transform.num), nuc.markers, nuc.dilated)]
    /\ pc' = "n_flood"
    /\ UNCHANGED <<file, myo, rel, other, dir_exists>>

\* line 80: one iteration of the flooding loop
N_Flood ==
    /\ pc = "n_flood"
    /\ nuc.flood.queue # {}
    /\ nuc' = [nuc EXCEPT !.flood =
                  WatershedPop(Negate(nuc.dist_transform.num), nuc.dilated, nuc.flood)]
    /\ pc' = "n_flood"
    /\ UNCHANGED <<file, myo, rel, other, dir_exists>>

\* line 80: the queue is empty, watershed returns
N_Labels ==
    /\ pc = "n_flood"
    /\ nuc.flood.queue = {}
    /\ nuc' = [nuc EXCEPT !.labels = nuc.flood.output]
    /\ pc' = "n_count"
    /\ UNCHANGED <<file, myo, rel, other, dir_exists>>

\* line 83
N_Count ==
    /\ pc = "n_count"
    /\ nuc' = [nuc EXCEPT !.nuclei_count = np_max(nuc.labels)]
    /\ pc' = "n_return"
    /\ UNCHANGED <<file, myo, rel, other, dir_exists>>

\* lines 123-130, and the assignment of line 48 in the caller
N_Return ==
    /\ pc = "n_return"
    /\ LET results == [nuclei_count |-> nuc.nuclei_count,
                       threshold_value |-> nuc.threshold_value,
                       labels |-> nuc.labels]
       IN  /\ nuc' = [nuc EXCEPT !.results = results]
           /\ rel' = [rel EXCEPT !.nuclei_results = results]
    /\ pc' = "m_load"
    /\ UNCHANGED <<file, myo, other, dir_exists>>

detect_nuclei ==
    \/ N_Load \/ N_Blur \/ N_Threshold \/ N_Erode \/ N_Dilate \/ N_Distance
    \/ N_Normalize \/ N_Peaks \/ N_LocalMax \/ N_Markers \/ N_Watershed
    \/ N_Flood \/ N_Labels \/ N_Count \/ N_Return

\* ------------------------------------------------------------------------
\* detect_myotubes(image_path, output_dir, visualize): myo.visualize is the
\* parameter, False in the call of line 52 of the relationship analysis
\* ------------------------------------------------------------------------
\* lines 35-43 returning an empty result for an unreadable image, where
\* line 37 raises
M_Load_returning_empty ==
    /\ pc = "m_load"
    /\ IF file = None
       THEN LET results == [myotube_count |-> 0, total_myotube_area |-> 0,
                            myotube_area_percentage |-> <<0, 1>>,
                            myotube_mask |-> ZerosLike(rel.nuclei_results.labels),
                            labeled_myotubes |-> ZerosLike(rel.nuclei_results.labels)]
            IN  /\ myo' = [myo EXCEPT !.results = results]
                /\ rel' = [rel EXCEPT !.myotube_results = results]
                /\ pc' = "r_unique"
       ELSE /\ myo' = [myo EXCEPT !.image_rgb = cvtColor_BGR2RGB(file),
                                  !.red_channel = Channel(cvtColor_BGR2RGB(file), 0)]
            /\ pc' = "m_blur"
            /\ UNCHANGED rel
    /\ UNCHANGED <<file, nuc, other, dir_exists>>

\* lines 33-43
M_Load ==
    /\ pc = "m_load"
    /\ IF file = None
       THEN /\ pc' = "raised"
            /\ UNCHANGED myo
       ELSE /\ myo' = [myo EXCEPT !.image_rgb = cvtColor_BGR2RGB(file),
                                  !.red_channel = Channel(cvtColor_BGR2RGB(file), 0)]
            /\ pc' = "m_blur"
    /\ UNCHANGED <<file, nuc, rel, other, dir_exists>>

\* line 46
M_Blur ==
    /\ pc = "m_blur"
    /\ myo' = [myo EXCEPT !.blurred = GaussianBlur(myo.red_channel, Kernel5, "reflect101")]
    /\ pc' = "m_threshold"
    /\ UNCHANGED <<file, nuc, rel, other, dir_exists>>

\* lines 50-57
M_Threshold ==
    /\ pc = "m_threshold"
    /\ myo' = [myo EXCEPT !.binary = adaptiveThreshold(myo.blurred, 255, Kernel21, -5)]
    /\ pc' = "m_open"
    /\ UNCHANGED <<file, nuc, rel, other, dir_exists>>

\* lines 61-62
M_Open ==
    /\ pc = "m_open"
    /\ myo' = [myo EXCEPT !.opened = morphologyEx_OPEN(myo.binary, 3, 1)]
    /\ pc' = "m_close"
    /\ UNCHANGED <<file, nuc, rel, other, dir_exists>>

\* lines 65-66
M_Close ==
    /\ pc = "m_close"
    /\ myo' = [myo EXCEPT !.closed = morphologyEx_CLOSE(myo.opened, 5, 2)]
    /\ pc' = "m_label"
    /\ UNCHANGED <<file, nuc, rel, other, dir_exists>>

\* lines 69-70
M_Label ==
    /\ pc = "m_label"
    /\ LET labeled_image == label(myo.closed)
       IN  myo' = [myo EXCEPT !.labeled_image = labeled_image,
                              !.regions = regionprops(labeled_image)]
    /\ pc' = "m_filter"
    /\ UNCHANGED <<file, nuc, rel, other, dir_exists>>

\* lines 73-84
M_Filter ==
    /\ pc = "m_filter"
    /\ LET st == FilterLoop(myo.regions, 1,
                            [myotube_count |-> 0, total_myotube_area |-> 0,
                             filtered_binary |-> ZerosLike(myo.closed)])
       IN  myo' = [myo EXCEPT !.filtered_binary = st.filtered_binary,
                              !.myotube_count = st.myotube_count,
                              !.total_myotube_area = st.total_myotube_area]
    /\ pc' = "m_metrics"
    /\ UNCHANGED <<file, nuc, rel, other, dir_exists>>

\* lines 87-88: (total_myotube_area / image_area) * 100
M_Metrics ==
    /\ pc = "m_metrics"
    /\ LET image_area == NRows(myo.image_rgb[1]) * NCols(myo.image_rgb[1])
       IN  IF image_area = 0
           THEN \* ZeroDivisionError
                /\ pc' = "raised"
                /\ myo' = [myo EXCEPT !.image_area = image_area]
           ELSE /\ pc' = "m_visualize"
                /\ myo' = [myo EXCEPT !.image_area = image_area,
                                      !.myotube_area_percentage =
                                          <<myo.total_myotube_area * 100, image_area>>]
    /\ UNCHANGED <<file, nuc, rel, other, dir_exists>>

\* lines 90-93, with the label map of the area-filtered mask replaced by
\* that of the cleaned mask of line 66
M_Visualize_labelling_cleaned_mask ==
    /\ pc = "m_visualize"
    /\ myo' = IF myo.visualize
              THEN [myo EXCEPT !.labeled_myotubes = label(myo.closed)]
              ELSE myo
    /\ pc' = "m_return"
    /\ UNCHANGED <<file, nuc, rel, other, dir_exists>>

\* lines 90-129: with visualize set, the local labeled_myotubes is assigned
\* (line 93); the figure and the printed lines change no local that is used
\* afterwards
M_Visualize ==
    /\ pc = "m_visualize"
    /\ myo' = IF myo.visualize
              THEN [myo EXCEPT !.labeled_myotubes = label(myo.filtered_binary)]
              ELSE myo
    /\ pc' = "m_return"
    /\ UNCHANGED <<file, nuc, rel, other, dir_exists>>

\* the cleaned mask of line 66 returned as myotube_mask, as if line 138
\* named the mask before the area filter
M_Return_prefilter_mask ==
    /\ pc = "m_return"
    /\ LET results == [myotube_count |-> myo.myotube_count,
                       total_myotube_area |-> myo.total_myotube_area,
                       myotube_area_percentage |-> myo.myotube_area_percentage,
                       myotube_mask |-> myo.closed,
                       labeled_myotubes |->
                           IF myo.labeled_myotubes # Unset
                           THEN myo.labeled_myotubes
                           ELSE label(myo.filtered_binary)]
       IN  /\ myo' = [myo EXCEPT !.results = results]
           /\ IF rel.image_rgb # Unset
              THEN /\ rel' = [rel EXCEPT !.myotube_results = results]
                   /\ pc' = "r_unique"
              ELSE /\ pc' = "returned"
                   /\ UNCHANGED rel
    /\ UNCHANGED <<file, nuc, other, dir_exists>>

\* lines 131-140: labeled_myotubes is the local of line 93 when it was
\* assigned ('labeled_myotubes' in locals()) and is computed here otherwise.
\* Called from line 52 of analyze_nuclei_myotube_relationship (its image_rgb
\* is assigned), the result is assigned there; a direct call returns to its
\* caller.
M_Return ==
    /\ pc = "m_return"
    /\ LET results == [myotube_count |-> myo.myotube_count,
                       total_myotube_area |-> myo.total_myotube_area,
                       myotube_area_percentage |-> myo.myotube_area_percentage,
                       myotube_mask |-> myo.filtered_binary,
                       labeled_myotubes |->
                           IF myo.labeled_myotubes # Unset
                           THEN myo.labeled_myotubes
                           ELSE label(myo.filtered_binary)]
       IN  /\ myo' = [myo EXCEPT !.results = results]
           /\ IF rel.image_rgb # Unset
              THEN /\ rel' = [rel EXCEPT !.myotube_results = results]
                   /\ pc' = "r_unique"
              ELSE /\ pc' = "returned"
                   /\ UNCHANGED rel
    /\ UNCHANGED <<file, nuc, other, dir_exists>>

detect_myotubes ==
    \/ M_Load \/ M_Blur \/ M_Threshold \/ M_Open \/ M_Close
    \/ M_Label \/ M_Filter \/ M_Metrics \/ M_Visualize \/ M_Return

\* ------------------------------------------------------------------------
\* analyze_nuclei_myotube_relationship, lines 54-166: the join
\* ------------------------------------------------------------------------
\* g[y, x] in numpy: a negative index counts from the end, an index outside
\* -n..n-1 raises IndexError
IndexInRange(g, y, x) ==
    /\ y >= 0 - NRows(g) /\ y < NRows(g)
    /\ x >= 0 - NCols(g) /\ x < NCols(g)
GetItem(g, y, x) == g[y % NRows(g)][x % NCols(g)]

\* line 83, the operand myotube_mask[y, x] is evaluated: "and" reaches it only
\* when both comparisons before it are true.  R_Nucleus records the index in
\* the history field rel.mask_reads.
MaskIndexed(myotube_mask, y, x) ==
    y < NRows(myotube_mask) /\ x < NCols(myotube_mask)

\* line 83 without the two shape comparisons
CentroidInMyotube_unguarded(myotube_mask, y, x) ==
    IF ~IndexInRange(myotube_mask, y, x) THEN "IndexError"
    ELSE IF GetItem(myotube_mask, y, x) > 0 THEN "within"
    ELSE "outside"

\* line 83 with ">= 0" for "> 0"
CentroidInMyotube_nonnegative(myotube_mask, y, x) ==
    IF ~(y < NRows(myotube_mask)) THEN "outside"
    ELSE IF ~(x < NCols(myotube_mask)) THEN "outside"
    ELSE IF ~IndexInRange(myotube_mask, y, x) THEN "IndexError"
    ELSE IF GetItem(myotube_mask, y, x) >= 0 THEN "within"
    ELSE "outside"

\* line 83:
\*   y < myotube_mask.shape[0] and x < myotube_mask.shape[1] and myotube_mask[y, x] > 0
CentroidInMyotube(myotube_mask, y, x) ==
    IF ~(y < NRows(myotube_mask)) THEN "outside"
    ELSE IF ~(x < NCols(myotube_mask)) THEN "outside"
    ELSE IF ~IndexInRange(myotube_mask, y, x) THEN "IndexError"
    ELSE IF GetItem(myotube_mask, y, x) > 0 THEN "within"
    ELSE "outside"

\* lines 54-69
R_Unique ==
    /\ pc = "r_unique"
    /\ LET nuclei_labels == rel.nuclei_results.labels
           unique == np_unique(nuclei_labels)
       IN  rel' = [rel EXCEPT !.nuclei_labels = nuclei_labels,
                              !.myotube_mask = rel.myotube_results.myotube_mask,
                              !.labeled_myotubes = rel.myotube_results.labeled_myotubes,
                              !.nuclei_within_myotubes = 0,
                              !.nuclei_outside_myotubes = 0,
                              !.unique_nuclei = SelectSeq(unique, LAMBDA l : l > 0),
                              !.next = 1,
                              !.nuclei_centroids = <<>>,
                              !.nuclei_in_myotube = <<>>,
                              !.mask_reads = <<>>]
    /\ pc' = "r_loop"
    /\ UNCHANGED <<file, nuc, myo, other, dir_exists>>

\* lines 71-88 without "nuclei_in_myotube.append(False)" of line 88
R_Nucleus_no_false_flag ==
    /\ pc = "r_loop"
    /\ rel.next <= Len(rel.unique_nuclei)
    /\ LET nucleus_label == rel.unique_nuclei[rel.next]
           nucleus_mask == [r \in DOMAIN rel.nuclei_labels |->
                              [c \in DOMAIN rel.nuclei_labels[r] |->
                                  IF rel.nuclei_labels[r][c] = nucleus_label THEN 1 ELSE 0]]
           nucleus_props == regionprops(nucleus_mask)
           cen == centroid(nucleus_props[1])
           y == int(cen[1], cen[3])
           x == int(cen[2], cen[3])
           where == CentroidInMyotube(rel.myotube_mask, y, x)
           read == IF MaskIndexed(rel.myotube_mask, y, x) THEN <<y, x>> ELSE None
       IN  IF Len(nucleus_props) = 0
           THEN /\ rel' = [rel EXCEPT !.next = rel.next + 1]
                /\ pc' = "r_loop"
           ELSE IF where = "IndexError"
           THEN /\ rel' = [rel EXCEPT !.nuclei_centroids = Append(rel.nuclei_centroids, cen),
                                      !.mask_reads = Append(rel.mask_reads, read)]
                /\ pc' = "raised"
           ELSE IF where = "within"
           THEN /\ rel' = [rel EXCEPT !.nuclei_centroids = Append(rel.nuclei_centroids, cen),
                                      !.nuclei_within_myotubes = rel.nuclei_within_myotubes + 1,
                                      !.nuclei_in_myotube = Append(rel.nuclei_in_myotube, TRUE),
                                      !.mask_reads = Append(rel.mask_reads, read),
                                      !.next = rel.next + 1]
                /\ pc' = "r_loop"
           ELSE /\ rel' = [rel EXCEPT !.nuclei_centroids = Append(rel.nuclei_centroids, cen),
                                      !.nuclei_outside_myotubes = rel.nuclei_outside_myotubes + 1,
                                      !.mask_reads = Append(rel.mask_reads, read),
                                      !.next = rel.next + 1]
                /\ pc' = "r_loop"
    /\ UNCHANGED <<file, nuc, myo, other, dir_exists>>

\* lines 71-88: one iteration of "for nucleus_label in unique_nuclei"
R_Nucleus ==
    /\ pc = "r_loop"
    /\ rel.next <= Len(rel.unique_nuclei)
    /\ LET nucleus_label == rel.unique_nuclei[rel.next]
           nucleus_mask == [r \in DOMAIN rel.nuclei_labels |->
                              [c \in DOMAIN rel.nuclei_labels[r] |->
                                  IF rel.nuclei_labels[r][c] = nucleus_label THEN 1 ELSE 0]]
           nucleus_props == regionprops(nucleus_mask)
           cen == centroid(nucleus_props[1])
           y == int(cen[1], cen[3])
           x == int(cen[2], cen[3])
           where == CentroidInMyotube(rel.myotube_mask, y, x)
           read == IF MaskIndexed(rel.myotube_mask, y, x) THEN <<y, x>> ELSE None
       IN  IF Len(nucleus_props) = 0
           THEN /\ rel' = [rel EXCEPT !.next = rel.next + 1]
                /\ pc' = "r_loop"
           ELSE IF where = "IndexError"
           THEN /\ rel' = [rel EXCEPT !.nuclei_centroids = Append(rel.nuclei_centroids, cen),
                                      !.mask_reads = Append(rel.mask_reads, read)]
                /\ pc' = "raised"
           ELSE IF where = "within"
           THEN /\ rel' = [rel EXCEPT !.nuclei_centroids = Append(rel.nuclei_centroids, cen),
                                      !.nuclei_within_myotubes = rel.nuclei_within_myotubes + 1,
                                      !.nuclei_in_myotube = Append(rel.nuclei_in_myotube, TRUE),
                                      !.mask_reads = Append(rel.mask_reads, read),
                                      !.next = rel.next + 1]
                /\ pc' = "r_loop"
           ELSE /\ rel' = [rel EXCEPT !.nuclei_centroids = Append(rel.nuclei_centroids, cen),
                                      !.nuclei_outside_myotubes = rel.nuclei_outside_myotubes + 1,
                                      !.nuclei_in_myotube = Append(rel.nuclei_in_myotube, FALSE),
                                      !.mask_reads = Append(rel.mask_reads, read),
                                      !.next = rel.next + 1]
                /\ pc' = "r_loop"
    /\ UNCHANGED <<file, nuc, myo, other, dir_exists>>

\* line 92 without "if total_nuclei > 0 else 0": a zero denominator is the
\* ZeroDivisionError
PercentageWithin_unguarded(nuclei_within_myotubes, total_nuclei) ==
    <<nuclei_within_myotubes * 100, total_nuclei>>

\* line 92 without "* 100"
PercentageWithin_fraction(nuclei_within_myotubes, total_nuclei) ==
    IF total_nuclei > 0 THEN <<nuclei_within_myotubes, total_nuclei>> ELSE <<0, 1>>

\* (nuclei_within_myotubes / total_nuclei) * 100 if total_nuclei > 0 else 0
PercentageWithin(nuclei_within_myotubes, total_nuclei) ==
    IF total_nuclei > 0 THEN <<nuclei_within_myotubes * 100, total_nuclei>> ELSE <<0, 1>>

\* lines 90-92
R_Percentage ==
    /\ pc = "r_loop"
    /\ rel.next > Len(rel.unique_nuclei)
    /\ LET total_nuclei == rel.nuclei_within_myotubes + rel.nuclei_outside_myotubes
       IN  rel' = [rel EXCEPT !.total_nuclei = total_nuclei,
                              !.percentage_within_myotubes =
                                  PercentageWithin(rel.nuclei_within_myotubes, total_nuclei)]
    /\ pc' = "r_return"
    /\ UNCHANGED <<file, nuc, myo, other, dir_exists>>

\* lines 154-166
R_Return ==
    /\ pc = "r_return"
    /\ rel' = [rel EXCEPT !.results =
                  [total_nuclei |-> rel.total_nuclei,
                   nuclei_within_myotubes |-> rel.nuclei_within_myotubes,
                   nuclei_outside_myotubes |-> rel.nuclei_outside_myotubes,
                   percentage_within_myotubes |-> rel.percentage_within_myotubes,
                   myotube_count |-> rel.myotube_results.myotube_count,
                   myotube_area_percentage |-> rel.myotube_results.myotube_area_percentage,
                   nuclei_centroids |-> rel.nuclei_centroids,
                   nuclei_in_myotube |-> rel.nuclei_in_myotube]]
    /\ pc' = "done"
    /\ UNCHANGED <<file, nuc, myo, other, dir_exists>>

analyze_nuclei_myotube_relationship ==
    \/ A_Load
    \/ detect_nuclei
    \/ detect_myotubes
    \/ R_Unique \/ R_Nucleus \/ R_Percentage \/ R_Return

Next == analyze_nuclei_myotube_relationship

Spec == Init /\ [][Next]_vars

\* ------------------------------------------------------------------------
\* The analysis of a file that is rewritten while it is analysed
\* ------------------------------------------------------------------------
\* the environment rewrites the file after detect_nuclei has returned and
\* before detect_myotubes reads it
FileReplaced ==
    /\ pc = "m_load"
    /\ file \in ImagesNoRed
    /\ file' \in SmallImages
    /\ UNCHANGED <<pc, nuc, myo, rel, other, dir_exists>>

InitReplaced ==
    /\ file \in ImagesNoRed
    /\ pc = "a_load"
    /\ nuc = NucInit
    /\ myo = MyoInit
    /\ rel = RelInit
    /\ other = Unset
    /\ dir_exists = TRUE

NextReplaced ==
    \/ analyze_nuclei_myotube_relationship
    \/ FileReplaced

SpecReplaced == InitReplaced /\ [][NextReplaced]_vars

\* ------------------------------------------------------------------------
\* The analysis of a file that becomes unreadable while it is analysed
\* ------------------------------------------------------------------------
\* the environment removes the file before detect_nuclei or detect_myotubes
\* reads it (line 35 of either), so that cv2.imread returns None there
FileRemoved ==
    /\ pc \in {"n_load", "m_load"}
    /\ file # None
    /\ file' = None
    /\ UNCHANGED <<pc, nuc, myo, rel, other, dir_exists>>

InitUnreadable ==
    /\ file \in ImagesNoRed \cup {None}
    /\ pc = "a_load"
    /\ nuc = NucInit
    /\ myo = MyoInit
    /\ rel = RelInit
    /\ other = Unset
    /\ dir_exists = TRUE

NextUnreadable ==
    \/ analyze_nuclei_myotube_relationship
    \/ FileRemoved

SpecUnreadable == InitUnreadable /\ [][NextUnreadable]_vars

\* ------------------------------------------------------------------------
\* Two analyses of different images, with the same output_dir, run
\* concurrently
\* ------------------------------------------------------------------------
\* line 34: if not os.path.exists(output_dir)
A_DirCheck ==
    /\ pc = "a_exists"
    /\ pc' = IF dir_exists THEN "a_load" ELSE "a_makedirs"
    /\ UNCHANGED <<file, nuc, myo, rel, other, dir_exists>>

\* line 35: os.makedirs(output_dir), which raises FileExistsError when the
\* directory exists
A_MakeDirs ==
    /\ pc = "a_makedirs"
    /\ IF dir_exists
       THEN /\ pc' = "raised"
            /\ UNCHANGED dir_exists
       ELSE /\ pc' = "a_load"
            /\ dir_exists' = TRUE
    /\ UNCHANGED <<file, nuc, myo, rel, other>>

\* the running call is suspended and the suspended call resumes; a call that
\* has returned or raised does not run again
Switch ==
    /\ other # Unset
    /\ other.pc \notin {"done", "raised"}
    /\ other' = [file |-> file, pc |-> pc, nuc |-> nuc, myo |-> myo, rel |-> rel]
    /\ file' = other.file
    /\ pc' = other.pc
    /\ nuc' = other.nuc
    /\ myo' = other.myo
    /\ rel' = other.rel
    /\ UNCHANGED dir_exists

\* the image of the first call: one nucleus, one myotube
FirstImage ==
    <<Paint(Height, Width, {<<7, 8, 1, 1>>}), ConstGrid(Height, Width, 0),
      Paint(Height, Width, {<<0, 0, 10, 10>>, <<11, 21, 5, 5>>})>>
\* the image of the second call: smaller, and black
SecondImage ==
    [k \in 1..3 |-> ConstGrid(Height \div 2 - 2, Width, 0)]

InitTwoCalls ==
    /\ file = FirstImage
    /\ pc = "a_exists"
    /\ nuc = NucInit
    /\ myo = MyoInit
    /\ rel = RelInit
    /\ other = [file |-> SecondImage, pc |-> "a_exists",
                nuc |-> NucInit, myo |-> MyoInit, rel |-> RelInit]
    /\ dir_exists = FALSE

NextTwoCalls ==
    \/ A_DirCheck
    \/ A_MakeDirs
    \/ analyze_nuclei_myotube_relationship
    \/ Switch

SpecTwoCalls == InitTwoCalls /\ [][NextTwoCalls]_vars

\* ------------------------------------------------------------------------
\* test_analyzer.py, lines 42-48: detect_myotubes is called with
\* visualize=True, its result is kept in myotube_results, and the same image
\* is then analysed (where line 52 calls detect_myotubes with
\* visualize=False)
\* ------------------------------------------------------------------------
\* lines 42-48 of test_analyzer.py: the finished call's frame is kept and
\* analyze_nuclei_myotube_relationship is entered
T_Analyze ==
    /\ pc = "returned"
    /\ other = Unset
    /\ other' = [file |-> file, pc |-> pc, nuc |-> nuc, myo |-> myo, rel |-> rel]
    /\ pc' = "a_load"
    /\ nuc' = NucInit
    /\ myo' = MyoInit
    /\ rel' = RelInit
    /\ UNCHANGED <<file, dir_exists>>

InitTestAnalyzer ==
    /\ file \in { <<Paint(Height, Width, b), ConstGrid(Height, Width, 0),
                    Paint(Height, Width, r)>> :
                    b \in { {}, {<<6, 6, 3, 3>>, <<6, 16, 3, 3>>} }, r \in RedChoices }
    /\ pc = "m_load"
    /\ nuc = NucInit
    /\ myo = [MyoInit EXCEPT !.visualize = TRUE]
    /\ rel = RelInit
    /\ other = Unset
    /\ dir_exists = TRUE

NextTestAnalyzer ==
    \/ T_Analyze
    \/ analyze_nuclei_myotube_relationship

SpecTestAnalyzer == InitTestAnalyzer /\ [][NextTestAnalyzer]_vars

\* ------------------------------------------------------------------------
\* The metrics of detect_myotubes (lines 86-88) as a function of the image
\* shape and the filtered area
\* ------------------------------------------------------------------------
\* largest image side drawn for the metrics computation
MaxSide == 4

\* detect_myotubes about to execute line 87, with an image of h rows and
\* w columns of which total_myotube_area pixels were kept
InitMetrics ==
    /\ file = None
    /\ other = Unset
    /\ dir_exists = TRUE
    /\ pc = "m_metrics"
    /\ nuc = NucInit
    /\ rel = RelInit
    /\ \E h \in 0..MaxSide, w \in 0..MaxSide :
          \E area \in 0..(h * w) :
              myo = [MyoInit EXCEPT
                        !.image_rgb = [k \in 1..3 |-> ConstGrid(h, w, 0)],
                        !.myotube_count = IF area = 0 THEN 0 ELSE 1,
                        !.total_myotube_area = area]

NextMetrics == M_Metrics

SpecMetrics == InitMetrics /\ [][NextMetrics]_vars

\* ------------------------------------------------------------------------
\* Properties
\* ------------------------------------------------------------------------

\* C1: when the analysis has finished, nuclei_within_myotubes +
\* nuclei_outside_myotubes equals total_nuclei, total_nuclei equals the
\* nuclei_count detect_nuclei returned, and both equal the number of distinct
\* positive labels of the nuclei label map (one classification per label).
C1_NucleiCountsAgree ==
    pc = "done" =>
        LET positive == {rel.nuclei_labels[p[1]][p[2]] : p \in Foreground(rel.nuclei_labels)}
        IN  /\ rel.results.nuclei_within_myotubes + rel.results.nuclei_outside_myotubes
                   = rel.results.total_nuclei
            /\ rel.results.total_nuclei = rel.nuclei_results.nuclei_count
            /\ rel.results.total_nuclei = Cardinality(positive)
            /\ Len(rel.results.nuclei_in_myotube) = Cardinality(positive)

C1_Witness ==
    /\ pc = "done"
    /\ rel.results.total_nuclei = 2
    /\ rel.results.nuclei_within_myotubes = 1
    /\ rel.nuclei_results.nuclei_count = 2

\* C2: once computed, percentage_within_myotubes is a number (no division by
\* zero happened) between 0 and 100 inclusive, and it is exactly 0 when no
\* nucleus was detected.
C2_PercentageInRange ==
    pc \in {"r_return", "done"} =>
        LET pct == rel.percentage_within_myotubes
        IN  /\ pct[2] > 0
            /\ 0 <= pct[1]
            /\ pct[1] <= 100 * pct[2]
            /\ (rel.total_nuclei = 0 => pct[1] = 0)

C2_Witness ==
    /\ pc = "done"
    /\ rel.total_nuclei = 0
    /\ rel.nuclei_results.nuclei_count = 0
    /\ rel.percentage_within_myotubes[1] = 0

\* C3, as the specification states it: a nucleus is flagged "within myotube"
\* exactly when the myotube mask is foreground at the pixel whose coordinates
\* are the centroid's coordinates rounded to the nearest integer (either
\* neighbour is accepted when a coordinate lies exactly halfway); no other
\* pixel of the nucleus matters.
C3_NearestPixelDecides ==
    pc = "done" =>
        \A i \in 1..Len(rel.nuclei_centroids) :
            LET cen == rel.nuclei_centroids[i]
                Nearest(num) ==
                    {k \in (num \div cen[3])..(num \div cen[3] + 1) :
                        \A j \in (num \div cen[3])..(num \div cen[3] + 1) :
                            Abs(num - k * cen[3]) <= Abs(num - j * cen[3])}
                Fg(y, x) == /\ y < NRows(rel.myotube_mask)
                            /\ x < NCols(rel.myotube_mask)
                            /\ rel.myotube_mask[y][x] > 0
            IN  IF rel.nuclei_in_myotube[i]
                THEN \E y \in Nearest(cen[1]), x \in Nearest(cen[2]) : Fg(y, x)
                ELSE \E y \in Nearest(cen[1]), x \in Nearest(cen[2]) : ~Fg(y, x)

\* C4: a nucleus whose integer centroid coordinates lie outside the myotube
\* mask (a row or column below 0, or at or beyond the mask's height or width)
\* is flagged outside and counted in nuclei_outside_myotubes; the mask is not
\* indexed for it and no exception ends the loop.
C4_OutOfBoundsIsOutside ==
    /\ rel.nuclei_in_myotube # Unset =>
          /\ \A i \in 1..Len(rel.nuclei_centroids) :
                LET cen == rel.nuclei_centroids[i]
                    y == int(cen[1], cen[3])
                    x == int(cen[2], cen[3])
                IN  (\/ y < 0 \/ y >= NRows(rel.myotube_mask)
                     \/ x < 0 \/ x >= NCols(rel.myotube_mask))
                    => /\ i <= Len(rel.nuclei_in_myotube)
                       /\ rel.nuclei_in_myotube[i] = FALSE
                       /\ rel.mask_reads[i] = None
          /\ rel.nuclei_outside_myotubes =
                Cardinality({i \in 1..Len(rel.nuclei_in_myotube) : ~rel.nuclei_in_myotube[i]})
    /\ pc = "raised" => rel.nuclei_centroids = Unset

C4_Witness ==
    /\ pc = "done"
    /\ NRows(rel.myotube_mask) < NRows(rel.nuclei_labels)
    /\ \E i \in 1..Len(rel.nuclei_centroids) :
          /\ int(rel.nuclei_centroids[i][1], rel.nuclei_centroids[i][3])
                 >= NRows(rel.myotube_mask)
          /\ rel.nuclei_in_myotube[i] = FALSE
          /\ rel.mask_reads[i] = None
    /\ rel.nuclei_outside_myotubes >= 1

\* C5: after the area filter, the pixels of a connected region of the cleaned
\* mask are foreground in the filtered mask exactly when the region has at
\* least 100 pixels (a region of exactly 100 pixels is kept), nothing else is
\* foreground, myotube_count is the number of kept regions and
\* total_myotube_area is the sum of their areas.
C5_AreaFilterKeepsLargeRegions ==
    myo.filtered_binary # Unset =>
        LET kept == {k \in 1..Len(myo.regions) : myo.regions[k].area >= 100}
        IN  /\ \A k \in 1..Len(myo.regions) :
                  \A p \in myo.regions[k].coords :
                      (myo.filtered_binary[p[1]][p[2]] # 0) <=> (k \in kept)
            /\ \A p \in Foreground(myo.filtered_binary) : myo.closed[p[1]][p[2]] # 0
            /\ myo.myotube_count = Cardinality(kept)
            /\ myo.total_myotube_area = Cardinality(Foreground(myo.filtered_binary))
            /\ myo.total_myotube_area =
                  SumRange([k \in 1..Len(myo.regions) |->
                               IF k \in kept THEN myo.regions[k].area ELSE 0],
                           1, Len(myo.regions))

C5_Witness ==
    /\ pc = "m_metrics"
    /\ Len(myo.regions) = 2
    /\ myo.regions[1].area = 100
    /\ myo.regions[2].area < 100
    /\ myo.myotube_count = 1
    /\ myo.total_myotube_area = 100

\* C6: the area filter is idempotent: applied to its own output it returns
\* the same filtered mask, the same myotube_count and the same
\* total_myotube_area.
C6_AreaFilterIdempotent ==
    pc = "m_metrics" =>
        LET again == AreaFilter(myo.filtered_binary)
        IN  /\ again.filtered_binary = myo.filtered_binary
            /\ again.myotube_count = myo.myotube_count
            /\ again.total_myotube_area = myo.total_myotube_area

C6_Witness ==
    /\ pc = "m_metrics"
    /\ myo.myotube_count = 1
    /\ Len(myo.regions) = 2
    /\ AreaFilter(myo.filtered_binary).myotube_count = 1

\* C7: the label map of a binary mask, as computed in each of the three
\* labelling passes (the cleaned myotube mask, the marker mask, the filtered
\* myotube mask), has label 0 exactly on the background pixels, so label 0
\* appears iff the mask has a background pixel; the pixels of each positive
\* label form one 8-connected set, different labels are not 8-adjacent, and
\* the positive labels are exactly 1..N.
C7_LabelMapWellFormed ==
    LET WellFormed(mask, lab) ==
            LET values == {lab[p[1]][p[2]] : p \in Pixels(lab)}
                positive == values \ {0}
            IN  /\ \A p \in Pixels(mask) : (lab[p[1]][p[2]] = 0) <=> (mask[p[1]][p[2]] = 0)
                /\ (0 \in values) <=> (\E p \in Pixels(mask) : mask[p[1]][p[2]] = 0)
                /\ positive = 1..Cardinality(positive)
                /\ \A l \in positive :
                      LET S == {p \in Pixels(lab) : lab[p[1]][p[2]] = l}
                          seed == RasterFirst(S)
                      IN  /\ Flood(S, {seed}, {seed}) = S
                          /\ \A p \in S : \A q \in Neighbours8(p) \cap Pixels(lab) :
                                lab[q[1]][q[2]] \in {0, l}
    IN  /\ pc = "m_filter" => WellFormed(myo.closed, myo.labeled_image)
        /\ pc = "n_watershed" => WellFormed(nuc.local_max, nuc.markers)
        /\ pc = "r_unique" => WellFormed(myo.filtered_binary, rel.myotube_results.labeled_myotubes)

C7_Witness ==
    /\ pc = "m_filter"
    /\ Len(myo.regions) = 2
    /\ \E p \in Pixels(myo.labeled_image) : myo.labeled_image[p[1]][p[2]] = 0
    /\ \E p \in Pixels(myo.labeled_image) : myo.labeled_image[p[1]][p[2]] = 2

\* C8: for an image whose nuclei channel is all black, detect_nuclei raises
\* no exception, its foreground mask is empty, it finds no marker, the label
\* map it returns is 0 everywhere and nuclei_count is 0; and whenever the
\* foreground mask is empty the same results follow.
C8_EmptyForegroundNoNuclei ==
    /\ (file # None /\ Foreground(file[1]) = {}) =>
          /\ pc # "raised"
          /\ nuc.dilated # Unset => Foreground(nuc.dilated) = {}
    /\ (nuc.results # Unset /\ Foreground(nuc.dilated) = {}) =>
          /\ nuc.coordinates = <<>>
          /\ Foreground(nuc.markers) = {}
          /\ Foreground(nuc.results.labels) = {}
          /\ nuc.results.nuclei_count = 0

C8_Witness ==
    /\ pc = "m_load"
    /\ Foreground(file[1]) = {}
    /\ Foreground(nuc.dilated) = {}
    /\ nuc.results.nuclei_count = 0
    /\ Foreground(nuc.results.labels) = {}

\* C9: the analysis of a readable image never ends in an exception; when the
\* myotube mask is empty the results have myotube_count 0, area percentage 0,
\* no nucleus within a myotube and percentage_within_myotubes 0; when the
\* nuclei label map is empty total_nuclei and percentage_within_myotubes are 0.
C9_DegenerateInputs ==
    /\ file # None => pc # "raised"
    /\ pc = "done" =>
          /\ Foreground(rel.myotube_mask) = {} =>
                /\ rel.results.myotube_count = 0
                /\ rel.results.myotube_area_percentage[2] > 0
                /\ rel.results.myotube_area_percentage[1] = 0
                /\ rel.results.nuclei_within_myotubes = 0
                /\ rel.results.percentage_within_myotubes[2] > 0
                /\ rel.results.percentage_within_myotubes[1] = 0
          /\ Foreground(rel.nuclei_labels) = {} =>
                /\ rel.results.total_nuclei = 0
                /\ rel.results.nuclei_within_myotubes = 0
                /\ rel.results.nuclei_outside_myotubes = 0
                /\ rel.results.percentage_within_myotubes[2] > 0
                /\ rel.results.percentage_within_myotubes[1] = 0

C9_Witness ==
    /\ pc = "done"
    /\ Foreground(rel.myotube_mask) = {}
    /\ Foreground(rel.nuclei_labels) # {}
    /\ rel.results.nuclei_outside_myotubes = 2
    /\ rel.results.percentage_within_myotubes = <<0, 2>>

\* C10: when at least one nucleus was detected, percentage_within_myotubes is
\* nuclei_within_myotubes / (nuclei_within_myotubes + nuclei_outside_myotubes)
\* * 100; with two nuclei, one whose centroid pixel is myotube foreground and
\* one whose centroid pixel is background, the result is 1 within, 1 outside
\* and 50 percent.
C10_PercentageFormula ==
    pc = "done" =>
        LET within == rel.results.nuclei_within_myotubes
            outside == rel.results.nuclei_outside_myotubes
            pct == rel.results.percentage_within_myotubes
            Candidates(i, k) ==
                LET cen == rel.nuclei_centroids[i]
                IN  {cen[k] \div cen[3], (cen[k] + cen[3] - 1) \div cen[3]}
            Inside(i) == \A y \in Candidates(i, 1), x \in Candidates(i, 2) :
                            rel.myotube_mask[y][x] > 0
            Outside(i) == \A y \in Candidates(i, 1), x \in Candidates(i, 2) :
                            rel.myotube_mask[y][x] = 0
        IN  /\ within + outside >= 1 =>
                  /\ pct[2] > 0
                  /\ pct[1] * (within + outside) = within * 100 * pct[2]
            /\ (/\ Len(rel.nuclei_centroids) = 2
                /\ \E i, j \in 1..2 : i # j /\ Inside(i) /\ Outside(j))
               => /\ within = 1
                  /\ outside = 1
                  /\ pct[1] = 50 * pct[2]

C10_Witness ==
    /\ pc = "done"
    /\ Len(rel.nuclei_centroids) = 2
    /\ rel.results.nuclei_within_myotubes = 1
    /\ rel.results.nuclei_outside_myotubes = 1
    /\ rel.results.percentage_within_myotubes = <<100, 2>>

\* C11: when cv2.imread returns None (the only invalid image it can deliver:
\* an image it decodes has at least one row, one column and three channels),
\* each of analyze_nuclei_myotube_relationship, detect_nuclei and
\* detect_myotubes raises in its very next step, before any of its
\* segmentation stages has run, and leaves no result: the function that
\* raised has assigned none of its locals and nothing runs afterwards.
C11_InvalidImageRaisesAtOnce ==
    /\ [](pc = "raised" =>
            /\ file = None
            /\ rel.results = Unset
            /\ rel.unique_nuclei = Unset
            /\ myo = MyoInit
            /\ (nuc = NucInit \/ nuc.results # Unset)
            /\ (rel.nuclei_results = Unset => nuc = NucInit)
            /\ (rel.image_rgb = Unset => rel = RelInit))
    /\ [][(file = None /\ pc \in {"a_load", "n_load", "m_load"})
            => (pc' = "raised" /\ nuc' = nuc /\ myo' = myo /\ rel' = rel)]_vars
    /\ [][pc = "raised" => pc' = "raised"]_vars

C11_Witness ==
    /\ pc = "raised"
    /\ file = None
    /\ nuc.results # Unset
    /\ myo = MyoInit
    /\ rel.results = Unset

C13_CentroidsAndFlagsParallel ==
    /\ [](pc \in {"r_loop", "r_return", "done"} =>
            /\ Len(rel.nuclei_centroids) = Len(rel.nuclei_in_myotube)
            /\ Cardinality({i \in 1..Len(rel.nuclei_in_myotube) : rel.nuclei_in_myotube[i]})
                  = rel.nuclei_within_myotubes
            /\ Cardinality({i \in 1..Len(rel.nuclei_in_myotube) : ~rel.nuclei_in_myotube[i]})
                  = rel.nuclei_outside_myotubes)
    /\ [](pc = "done" =>
            /\ rel.results.nuclei_centroids = rel.nuclei_centroids
            /\ rel.results.nuclei_in_myotube = rel.nuclei_in_myotube
            /\ Len(rel.results.nuclei_centroids) = rel.results.total_nuclei
            /\ Len(rel.results.nuclei_in_myotube) = rel.nuclei_results.nuclei_count
            /\ Cardinality({i \in 1..Len(rel.results.nuclei_in_myotube) :
                               rel.results.nuclei_in_myotube[i]})
                  = rel.results.nuclei_within_myotubes)
    /\ [][(pc = "r_loop" /\ pc' = "r_loop") =>
            LET n == Len(rel.nuclei_in_myotube)
            IN  /\ Len(rel.nuclei_in_myotube') = n + 1
                /\ Len(rel.nuclei_centroids') = n + 1
                /\ SubSeq(rel.nuclei_in_myotube', 1, n) = rel.nuclei_in_myotube
                /\ SubSeq(rel.nuclei_centroids', 1, n) = rel.nuclei_centroids
                /\ rel.nuclei_in_myotube'[n + 1] <=>
                      (rel.nuclei_within_myotubes' = rel.nuclei_within_myotubes + 1)
                /\ rel.nuclei_within_myotubes' + rel.nuclei_outside_myotubes' = n + 1]_vars

C13_Witness ==
    /\ pc = "done"
    /\ rel.results.nuclei_in_myotube = <<TRUE, FALSE>>
    /\ Len(rel.results.nuclei_centroids) = 2
    /\ rel.results.nuclei_within_myotubes = 1

\* C14, as the specification states it: two analyses of different images
\* that run concurrently, their steps interleaved in any way, each end as
\* they do when run alone: neither raises, and each returns the results of
\* its own image (for the first image one nucleus, within the one myotube;
\* for the second, black, image no nucleus and no myotube).
C14_ConcurrentCallsAsAlone ==
    LET Alone(f) ==
            IF f = FirstImage
            THEN [total_nuclei |-> 1, nuclei_within_myotubes |-> 1,
                  nuclei_outside_myotubes |-> 0,
                  percentage_within_myotubes |-> <<100, 1>>,
                  myotube_count |-> 1,
                  myotube_area_percentage |-> <<10000, Height * Width>>,
                  nuclei_centroids |-> <<<<63, 72, 9>>>>,
                  nuclei_in_myotube |-> <<TRUE>>]
            ELSE [total_nuclei |-> 0, nuclei_within_myotubes |-> 0,
                  nuclei_outside_myotubes |-> 0,
                  percentage_within_myotubes |-> <<0, 1>>,
                  myotube_count |-> 0,
                  myotube_area_percentage |-> <<0, (Height \div 2 - 2) * Width>>,
                  nuclei_centroids |-> <<>>,
                  nuclei_in_myotube |-> <<>>]
        AsAlone(call) ==
            /\ call.pc # "raised"
            /\ call.pc = "done" => call.rel.results = Alone(call.file)
    IN  other # Unset =>
            /\ AsAlone([file |-> file, pc |-> pc, rel |-> rel])
            /\ AsAlone(other)

\* C16: the cleanup steps run in a fixed order, each on the output of the
\* step before it.  Myotube path: the thresholded mask, then its opening
\* (3x3 erosion then dilation, once each), then the closing of the opened
\* mask (5x5 dilation twice then erosion twice), then the labelling of the
\* closed mask and the area filter over its regions.  Nuclei path: the
\* thresholded mask, then its 3x3 erosion, then the 3x3 dilation of the
\* eroded mask, then the distance transform of the dilated mask.  No stage
\* output exists before its predecessor's, and none is reassigned.
C16_CleanupOrder ==
    /\ [](/\ myo.opened # Unset => myo.binary # Unset
          /\ myo.closed # Unset => myo.opened # Unset
          /\ myo.labeled_image # Unset => myo.closed # Unset
          /\ myo.filtered_binary # Unset => myo.labeled_image # Unset
          /\ nuc.eroded # Unset => nuc.binary # Unset
          /\ nuc.dilated # Unset => nuc.eroded # Unset
          /\ nuc.dist_transform # Unset => nuc.dilated # Unset)
    /\ [](/\ pc = "m_close" => myo.opened = dilate(erode(myo.binary, 3, 1), 3, 1)
          /\ pc = "m_label" => myo.closed = erode(dilate(myo.opened, 5, 2), 5, 2)
          /\ pc = "m_filter" => /\ myo.labeled_image = label(myo.closed)
                                /\ myo.regions = regionprops(myo.labeled_image)
          /\ pc = "m_metrics" => myo.filtered_binary = AreaFilter(myo.closed).filtered_binary
          /\ pc = "n_dilate" => nuc.eroded = erode(nuc.binary, 3, 1)
          /\ pc = "n_distance" => nuc.dilated = dilate(nuc.eroded, 3, 1)
          /\ pc = "n_normalize" => nuc.dist_transform.num = distanceTransform(nuc.dilated))
    /\ [][/\ myo.binary # Unset => myo.binary' = myo.binary
          /\ myo.opened # Unset => myo.opened' = myo.opened
          /\ myo.closed # Unset => myo.closed' = myo.closed
          /\ myo.labeled_image # Unset => myo.labeled_image' = myo.labeled_image
          /\ myo.filtered_binary # Unset => myo.filtered_binary' = myo.filtered_binary
          /\ nuc.binary # Unset => nuc.binary' = nuc.binary
          /\ nuc.eroded # Unset => nuc.eroded' = nuc.eroded
          /\ nuc.dilated # Unset => nuc.dilated' = nuc.dilated]_vars

\* the closing has changed the opened mask, and the area filter has run on
\* the regions of the closed mask
C16_Witness ==
    /\ pc = "m_metrics"
    /\ myo.closed # myo.opened
    /\ myo.closed = erode(dilate(myo.opened, 5, 2), 5, 2)
    /\ myo.closed # dilate(erode(myo.opened, 5, 2), 5, 2)
    /\ myo.myotube_count = 1
    /\ nuc.dilated = dilate(nuc.eroded, 3, 1)
    /\ nuc.eroded # nuc.binary

\* C17: the join (lines 54-92) runs only after detect_nuclei and
\* detect_myotubes have both run to their end and returned, on the label map
\* and the mask they returned; detect_myotubes starts only after
\* detect_nuclei has returned, and detect_nuclei only after the image was
\* loaded; when either detection raises, the join never runs and no result
\* is returned.
C17_JoinAfterBothDetections ==
    /\ [](pc \in {"r_unique", "r_loop", "r_return", "done"} =>
            /\ nuc.labels # Unset
            /\ nuc.results # Unset
            /\ rel.nuclei_results = nuc.results
            /\ nuc.results.labels = nuc.labels
            /\ myo.filtered_binary # Unset
            /\ myo.results # Unset
            /\ rel.myotube_results = myo.results
            /\ myo.results.myotube_mask = myo.filtered_binary)
    /\ [](rel.nuclei_labels # Unset =>
            /\ pc \in {"r_loop", "r_return", "done"}
            /\ rel.nuclei_labels = nuc.labels
            /\ rel.myotube_mask = myo.filtered_binary)
    /\ [](/\ myo # MyoInit => nuc.results # Unset
          /\ nuc # NucInit => rel.image_rgb # Unset
          /\ pc \in {"m_load", "m_blur", "m_threshold", "m_open", "m_close",
                     "m_label", "m_filter", "m_metrics", "m_visualize",
                     "m_return"}
                => (nuc.results # Unset /\ myo.results = Unset)
          /\ pc \in {"n_load", "n_blur", "n_threshold", "n_erode", "n_dilate",
                     "n_distance", "n_normalize", "n_peaks", "n_local_max",
                     "n_markers", "n_watershed", "n_flood", "n_labels", "n_count",
                     "n_return"}
                => (nuc.results = Unset /\ myo = MyoInit))
    /\ [](pc = "raised" => (rel.nuclei_labels = Unset /\ rel.results = Unset))
    /\ [][(pc # "raised" /\ pc' = "raised") =>
            (pc \in {"a_load", "n_load", "m_load"} /\ rel' = rel)]_vars
    /\ [][rel.nuclei_labels = Unset => (rel.results' = Unset /\ pc' # "done")]_vars

C17_Witness ==
    /\ pc = "raised"
    /\ rel.nuclei_results # Unset
    /\ Foreground(rel.nuclei_results.labels) # {}
    /\ rel.myotube_results = Unset
    /\ rel.nuclei_labels = Unset

\* C18, as the specification states it: a pixel of the myotube mask is
\* foreground if and only if its smoothed intensity is above the mean
\* intensity of its 21x21 neighbourhood plus 5.  The statement is taken
\* generously: the neighbourhood may be padded by replication or by
\* mirroring at the border, and a pixel within one intensity level of the
\* threshold may fall on either side.
C18_AboveNeighbourhoodMean ==
    pc = "m_open" =>
        LET src == myo.blurred
            h == NRows(src)
            w == NCols(src)
            ones == [k \in 1..21 |-> 1]
            Agrees(border) ==
                LET cidx == [c \in 0..(w - 1) |->
                                [k \in 1..21 |-> BorderIndex(border, c + k - 11, w)]]
                    ridx == [r \in 0..(h - 1) |->
                                [k \in 1..21 |-> BorderIndex(border, r + k - 11, h)]]
                    hsum == [c \in 0..(w - 1) |-> [r \in 0..(h - 1) |->
                                Convolve(ones, src[r], cidx[c], 21)]]
                    \* the sum of the 441 intensities of the neighbourhood
                    total == [r \in 0..(h - 1) |-> [c \in 0..(w - 1) |->
                                Convolve(ones, hsum[c], ridx[r], 21)]]
                IN  \A r \in 0..(h - 1), c \in 0..(w - 1) :
                        IF myo.binary[r][c] # 0
                        THEN 441 * (src[r][c] - 4) > total[r][c]
                        ELSE 441 * (src[r][c] - 6) <= total[r][c]
        IN  /\ DOMAIN myo.binary = DOMAIN src
            /\ Agrees("replicate") \/ Agrees("reflect101")

\* C18, amended: a pixel of the myotube mask is 255 if its smoothed
\* intensity exceeds by more than 5 the Gaussian-weighted mean of its 21x21
\* neighbourhood (weights Kernel21[i] * Kernel21[j] / 65536, the image
\* replicated at its border, the mean rounded to an integer), and 0
\* otherwise; the mask has the shape of the smoothed image.
C18_AboveGaussianWeightedMean ==
    pc = "m_open" =>
        LET src == myo.blurred
            h == NRows(src)
            w == NCols(src)
            cidx == [c \in 0..(w - 1) |-> [k \in 1..21 |-> Replicate(c + k - 11, w)]]
            WeightedSum(r, c) ==
                Convolve(Kernel21,
                         [i \in 1..21 |->
                             Convolve(Kernel21, src[Replicate(r + i - 11, h)], cidx[c], 21)],
                         [i \in 1..21 |-> i], 21)
        IN  /\ DOMAIN myo.binary = DOMAIN src
            /\ \A r \in 0..(h - 1) :
                  /\ DOMAIN myo.binary[r] = DOMAIN src[r]
                  /\ \A c \in 0..(w - 1) :
                        myo.binary[r][c] =
                            IF src[r][c] - ((WeightedSum(r, c) + 32768) \div 65536) > 5
                            THEN 255 ELSE 0

C18_Witness ==
    /\ pc = "m_open"
    /\ myo.binary[5][5] = 255
    /\ myo.blurred[9][9] > 0
    /\ myo.binary[9][9] = 0
    /\ myo.binary[12][12] = 0

\* C19: the join tests the nuclei against the mask left by the area filter,
\* not the mask before it: the mask the join reads is filtered_binary, and a
\* nucleus whose centroid pixel lies in a region of the cleaned mask that
\* the filter discarded (area below 100) is classified as outside.
C19_JoinUsesFilteredMask ==
    pc = "done" =>
        /\ rel.myotube_mask = myo.filtered_binary
        /\ \A i \in 1..Len(rel.results.nuclei_centroids) :
              LET cen == rel.results.nuclei_centroids[i]
                  y == cen[1] \div cen[3]
                  x == cen[2] \div cen[3]
              IN  (\E k \in 1..Len(myo.regions) :
                       /\ <<y, x>> \in myo.regions[k].coords
                       /\ myo.regions[k].area < 100)
                  => rel.results.nuclei_in_myotube[i] = FALSE

C19_Witness ==
    /\ pc = "done"
    /\ Len(myo.regions) = 2
    /\ myo.regions[1].area >= 100
    /\ myo.regions[2].area < 100
    /\ myo.closed[7][7] # 0
    /\ <<7, 7>> \in myo.regions[2].coords
    /\ rel.results.total_nuclei = 2
    /\ rel.results.nuclei_centroids[1][1] \div rel.results.nuclei_centroids[1][3] = 7
    /\ rel.results.nuclei_centroids[1][2] \div rel.results.nuclei_centroids[1][3] = 7
    /\ rel.results.nuclei_in_myotube[1] = FALSE

\* C20: the result of detect_myotubes does not depend on visualize: the call
\* with visualize=True and the call with visualize=False on the same image
\* return the same myotube_count, total_myotube_area,
\* myotube_area_percentage, myotube_mask and labeled_myotubes; the label map
\* is present on either path and is that of the filtered mask, and its
\* number of labels is myotube_count.
C20_VisualizeDoesNotChangeResult ==
    LET Labelled(results) ==
            /\ results.labeled_myotubes = label(results.myotube_mask)
            /\ Cardinality({results.labeled_myotubes[p[1]][p[2]] :
                               p \in Foreground(results.labeled_myotubes)})
                   = results.myotube_count
    IN  /\ pc = "returned" => Labelled(myo.results)
        /\ (pc = "done" /\ other # Unset) =>
              LET shown == other.myo.results
                  plain == rel.myotube_results
              IN  /\ other.myo.visualize
                  /\ ~myo.visualize
                  /\ Labelled(plain)
                  /\ shown.myotube_count = plain.myotube_count
                  /\ shown.total_myotube_area = plain.total_myotube_area
                  /\ shown.myotube_area_percentage = plain.myotube_area_percentage
                  /\ shown.myotube_mask = plain.myotube_mask
                  /\ shown.labeled_myotubes = plain.labeled_myotubes

C20_Witness ==
    /\ pc = "done"
    /\ other # Unset
    /\ other.file = file
    /\ other.myo.visualize
    /\ other.myo.labeled_myotubes # Unset
    /\ myo.labeled_myotubes = Unset
    /\ Len(myo.regions) = 2
    /\ rel.myotube_results.myotube_count = 1
    /\ Foreground(rel.myotube_results.labeled_myotubes) # {}

====
